---- MODULE Spec2Model ----
(***************************************************************************)
(* The sketch text format of src/src/parser.hh: SketchFormat::tokenize,    *)
(* SketchFormat::parseElement and SketchFormat::parse, driven as in        *)
(* src/src/main.cc (text -> tokenize -> parse); RawFormat::verify and      *)
(* RawFormat::parse on a text of their own; ParserBase::base36.            *)
(*                                                                         *)
(* A text is a sequence of one-character strings; the code's 0-based       *)
(* indices are kept and translated by At.  A token is a std::string_view   *)
(* into the text: a record [start, len].                                   *)
(***************************************************************************)
EXTENDS Integers, Sequences, FiniteSets, TLC

VARIABLES
    pc,          \* position of the program: tokenize loop, parse loop, ...
    str,         \* tokenize: the text being tokenized
    i,           \* tokenize: loop index i; parse: token index i
    prevState,   \* tokenize: prevState
    tokenStart,  \* tokenize: tokenStart
    parenCount,  \* tokenize: parenCount
    result,      \* the local `result` of the function that runs: the views
                 \* tokenize pushes, the RawSketch of RawFormat::parse, the
                 \* value of base36
    tkn,         \* parse: the token sequence handed to parse
    sketch,      \* parse: its local `result`, and what it returns
    oobRead,     \* parse: a member index >= members.size() was read
    elementTypeFromString,  \* types.hh: the names of the grouping elements
    verifyState, \* RawFormat::verify: state
    verified     \* RawFormat::verify: what it returned

vars == <<pc, str, i, prevState, tokenStart, parenCount, result, tkn, sketch,
          oobRead, elementTypeFromString, verifyState, verified>>

(***************************************************************************)
(* Bounds of the model.                                                    *)
(***************************************************************************)
MaxTextLen == 4
MaxChunks == 4

Min(a, b) == IF a < b THEN a ELSE b

At(s, k) == s[k + 1]

\* s.substr(pos, n) for pos <= size
Substr(s, pos, n) == SubSeq(s, pos + 1, pos + Min(n, Len(s) - pos))

(***************************************************************************)
(* ParserBase: character classes.                                          *)
(***************************************************************************)
Base10Chars == <<"0", "1", "2", "3", "4", "5", "6", "7", "8", "9">>

LowerChars ==
    <<"a", "b", "c", "d", "e", "f", "g", "h", "i", "j", "k", "l", "m",
      "n", "o", "p", "q", "r", "s", "t", "u", "v", "w", "x", "y", "z">>

UpperChars ==
    <<"A", "B", "C", "D", "E", "F", "G", "H", "I", "J", "K", "L", "M",
      "N", "O", "P", "Q", "R", "S", "T", "U", "V", "W", "X", "Y", "Z">>

Range(f) == {f[x] : x \in DOMAIN f}

IndexOf(seq, c) == CHOOSE k \in DOMAIN seq : seq[k] = c

isWhitespace(c) == c \in {" ", "\t", "\n", "\r"}

isNewline(c) == c \in {"\n", "\r"}

isLowercase(c) == c \in Range(LowerChars)

isUppercase(c) == c \in Range(UpperChars)

isBase10(c) == c \in Range(Base10Chars)

isBase36(c) == isBase10(c) \/ isLowercase(c) \/ isUppercase(c)

\* isAny(c, ":[],;") on a char
isOpChar(c) == c \in {":", "[", "]", ",", ";"}

(***************************************************************************)
(* Input texts: the examples of the format.                                *)
(***************************************************************************)
TextSemiExtra ==
    <<"A", ";", "e", "x", "t", "r", "a">>

TextListExtra ==
    <<"A", ":", " ", "[", "1", ",", "2", ",", "3", "]", ";", "e", "x", "t",
     "r", "a">>

TextCommentLine ==
    <<"%", " ", "f", "o", "o", "\n">>

TextTrailingComment ==
    <<"A", " ", "%", " ", "f", "o", "o">>

TextUnbalanced ==
    <<"(", "f", "o", "o", "(", "b", "a", "r">>

TextNested ==
    <<"x", " ", "(", "a", "(", "b", ";", " ", "c", ")", "\n", "%", "d",
     ")", " ", "y", "\n", "%", " ", "(", "z", "\n", "w">>

TextAffine9 ==
    <<"A", "f", "f", "i", "n", "e", ":", " ", "[", "1", ",", "2", ",", "3",
     ",", "4", ",", "5", ",", "6", ",", "7", ",", "8", ",", "9", "]">>

TextAffine3 ==
    <<"A", "f", "f", "i", "n", "e", ":", " ", "[", "1", ",", "2", ",", "3",
     "]">>

TextAffine9Spaced ==
    <<"A", "f", "f", "i", "n", "e", ":", " ", "[", "1", " ", "2", " ", "3",
     " ", "4", " ", "5", " ", "6", " ", "7", " ", "8", " ", "9", "]">>

TextTwoStatements ==
    <<"D", "a", "t", "a", ":", "[", "0", "0", "0", "0", "0", "1", "]", ",",
     "M", "a", "r", "k", "e", "r", ":", "(", "h", "i", ")", ";">>

TextBrush ==
    <<"B", "r", "u", "s", "h", ":", "[", "0", "A", ",", " ", "0", "0", "0",
     "0", "0", "0", "0", "1", "0", "A", "]">>

TextBrushSpaced ==
    <<"B", "r", "u", "s", "h", ":", "[", "0", "A", " ", "0", "0", "0", "0",
     "0", "1", "0", "A", "]">>

TextMarkerSemi ==
    <<"M", "a", "r", "k", "e", "r", ":", "(", "a", ")", " ", "M", "a", "r",
     "k", "e", "r", ":", " ", ";", "X">>

TextMarkerUnbalanced ==
    <<"M", "a", "r", "k", "e", "r", ":", "(", "f", "o", "o", "(", "b", "a",
     "r">>

TextDataBadChar ==
    <<"D", "a", "t", "a", ":", "[", "0", "0", "0", "0", "0", "-", "]">>

TextDataShort ==
    <<"D", "a", "t", "a", ":", "[", "0", "0", "0", "0", "0", "]">>

TextBrushOdd ==
    <<"B", "r", "u", "s", "h", ":", "[", "0", "A", "]">>

ExampleTexts ==
    {TextSemiExtra,
     TextListExtra,
     TextCommentLine,
     TextTrailingComment,
     TextUnbalanced,
     TextNested,
     TextAffine9,
     TextAffine3,
     TextAffine9Spaced,
     TextTwoStatements,
     TextBrush,
     TextBrushSpaced,
     TextMarkerSemi,
     TextMarkerUnbalanced,
     TextDataBadChar,
     TextDataShort,
     TextBrushOdd}

Alphabet == {"A", ";", ":", "%", "\n", " ", "(", ")"}

SeqsUpTo(S, n) == UNION {[1..m -> S] : m \in 0..n}

\* Every text of at most MaxTextLen characters over Alphabet, and the examples.
Texts == SeqsUpTo(Alphabet, MaxTextLen) \cup ExampleTexts

(***************************************************************************)
(* SketchFormat::tokenize.                                                 *)
(***************************************************************************)
\* resultAdd: result.push_back(str.substr(i0, i1-i0))
resultAdd(res, s, i0, i1) ==
    Append(res, [start |-> i0, len |-> Min(i1 - i0, Len(s) - i0)])

\* The lambda's effect on parenCount (it is captured by reference).
lambdaParen(state, c, count) ==
    IF state = "LineStart" /\ c = "%" THEN count
    ELSE IF state = "Comment" THEN count
    ELSE IF state = "String"
         THEN IF c = "(" THEN count + 1
              ELSE IF c = ")" THEN count - 1
              ELSE count
    ELSE count

\* lambdaState with a comment that ends at any whitespace.
lambdaStateCommentToSpace(state, c, count) ==
    IF state = "LineStart" /\ c = "%" THEN "Comment"
    ELSE IF state = "Comment"
         THEN IF isNewline(c) THEN "LineStart"
              ELSE IF isWhitespace(c) THEN "Space"
              ELSE "Comment"
    ELSE IF state = "String"
         THEN IF c = ")" /\ lambdaParen(state, c, count) <= 0
              THEN "StringEnd"
              ELSE "String"
    ELSE IF isNewline(c) THEN "LineStart"
    ELSE IF isWhitespace(c) THEN "Space"
    ELSE IF isOpChar(c) THEN "Op"
    ELSE IF c = "(" THEN "String"
    ELSE "Token"

\* The lambda's return value: the state the character c leads to.
lambdaState(state, c, count) ==
    IF state = "LineStart" /\ c = "%" THEN "Comment"
    ELSE IF state = "Comment"
         THEN IF isNewline(c) THEN "LineStart" ELSE "Comment"
    ELSE IF state = "String"
         THEN IF c = ")" /\ lambdaParen(state, c, count) <= 0
              THEN "StringEnd"
              ELSE "String"
    ELSE IF isNewline(c) THEN "LineStart"
    ELSE IF isWhitespace(c) THEN "Space"
    ELSE IF isOpChar(c) THEN "Op"
    ELSE IF c = "(" THEN "String"
    ELSE "Token"

\* if (prevState == Op) resultAdd(i-1, i);
opAdd(res, s, prev, k) ==
    IF prev = "Op" THEN resultAdd(res, s, k - 1, k) ELSE res

\* if (str[i] == ';') return result;   (inside the prevState == Op branch)
opReturns(prev, c) == prev = "Op" /\ c = ";"

\* changeAdd without the token of a string the text ends in.
changeAddNoEnd(res, s, prev, next, start, k) ==
    IF prev = next THEN res
    ELSE IF prev = "Token" THEN resultAdd(res, s, start, k)
    ELSE IF next = "StringEnd" THEN resultAdd(res, s, start, k + 1)
    ELSE res

\* The tokens the body of `if (prevState != nextState)` adds.
changeAdd(res, s, prev, next, start, k) ==
    IF prev = next THEN res
    ELSE IF prev = "Token" THEN resultAdd(res, s, start, k)
    ELSE IF next = "StringEnd" THEN resultAdd(res, s, start, k + 1)
    ELSE IF prev = "String" /\ next = "End" THEN resultAdd(res, s, start, k)
    ELSE res

\* changeStart without `tokenStart=i` at the opening of a string.
changeStartTokenOnly(prev, next, start, k) ==
    IF prev # next /\ next = "Token" THEN k ELSE start

\* tokenStart after the body of `if (prevState != nextState)`.
changeStart(prev, next, start, k) ==
    IF prev # next /\ next \in {"Token", "String"} THEN k ELSE start

\* changeParen without `parenCount=1` at the opening of a string.
changeParenKept(prev, next, count) == count

\* parenCount after the body of `if (prevState != nextState)`.
changeParen(prev, next, count) ==
    IF prev # next /\ next = "String" THEN 1 ELSE count

\* str[i] as the loop body reads it. At i == str.size() the read is past the
\* end of the view: whatever byte lies there, `;` included.
PastEnd == {"NUL", ";"}

ReadChar(s, k) == IF k < Len(s) THEN {At(s, k)} ELSE PastEnd

\* The text of a token view.
TokenText(s, t) == SubSeq(s, t.start + 1, t.start + t.len)

TokenTexts(s, res) == [k \in DOMAIN res |-> TokenText(s, res[k])]

NoSketch == [status |-> "none", elements |-> <<>>, atoms |-> <<>>]

\* One iteration of the for loop of tokenize, up to its return.
TokenizeStep ==
    /\ pc = "tokenize"
    /\ i <= Len(str)
    /\ LET next == IF i = Len(str) THEN "End"
                   ELSE lambdaState(prevState, At(str, i), parenCount)
           cnt == IF i = Len(str) THEN parenCount
                  ELSE lambdaParen(prevState, At(str, i), parenCount)
           r1 == opAdd(result, str, prevState, i)
       IN \E c \in ReadChar(str, i) :
            IF opReturns(prevState, c)
            THEN /\ result' = r1
                 /\ parenCount' = cnt
                 /\ pc' = "tokens"
                 /\ UNCHANGED <<i, prevState, tokenStart>>
            ELSE /\ result' = changeAdd(r1, str, prevState, next, tokenStart, i)
                 /\ tokenStart' = changeStart(prevState, next, tokenStart, i)
                 /\ parenCount' = changeParen(prevState, next, cnt)
                 /\ prevState' = next
                 /\ i' = i + 1
                 /\ pc' = IF i + 1 <= Len(str) THEN "tokenize" ELSE "tokens"
    /\ UNCHANGED <<str, tkn, sketch, oobRead, elementTypeFromString, verifyState,
                   verified>>

(***************************************************************************)
(* ParserBase: the numeric codec.  An assert of the code is modelled by    *)
(* an ...Asserts predicate: the build keeps its asserts, and a failed one  *)
(* aborts the program.                                                     *)
(***************************************************************************)
\* The value of one base-36 digit (the conditional of base36's loop body).
digit36(c) ==
    IF isBase10(c) THEN IndexOf(Base10Chars, c) - 1
    ELSE IF isLowercase(c) THEN IndexOf(LowerChars, c) + 9
    ELSE IndexOf(UpperChars, c) + 9

\* Conversion to int16_t: modulo 2^16.
ToInt16(x) ==
    LET m == x % 65536 IN IF m >= 32768 THEN m - 65536 ELSE m

RECURSIVE pow(_, _)
pow(b, e) == IF e = 0 THEN 1 ELSE b * pow(b, e - 1)

\* assert(str.size() <= N) and assert(isBase36(c)) for every c
base36Asserts(N, s) ==
    /\ Len(s) <= N
    /\ \A k \in DOMAIN s : isBase36(s[k])

\* base36<N,int16_t>: the accumulator is converted to int16_t at each step;
\* `result >= exp/2` compares as unsigned, so a negative result compares
\* greater; `result -= exp` is converted to int16_t again.
RECURSIVE acc36s(_, _)
acc36s(s, r) ==
    IF s = <<>> THEN r
    ELSE acc36s(Tail(s), ToInt16(36 * r + digit36(Head(s))))

\* base36s with `result >= exp/2` compared as signed values.
base36sSignedCompare(N, s) ==
    LET r == acc36s(s, 0)
        exp == pow(36, N)
    IN IF r >= exp \div 2 THEN ToInt16(r - exp) ELSE r

base36s(N, s) ==
    LET r == acc36s(s, 0)
        exp == pow(36, N)
    IN IF r < 0 \/ r >= exp \div 2 THEN ToInt16(r - exp) ELSE r

\* base36<N,unsigned>: no sign adjustment (N = 2: no wrap below 36^2).
RECURSIVE acc36u(_, _)
acc36u(s, r) ==
    IF s = <<>> THEN r ELSE acc36u(Tail(s), 36 * r + digit36(Head(s)))

base36u(N, s) == acc36u(s, 0)

\* base10<int>: the text after the optional sign
unsigned10(s) == IF s # <<>> /\ Head(s) \in {"+", "-"} THEN Tail(s) ELSE s

base10IntAsserts(s) == \A k \in DOMAIN unsigned10(s) : isBase10(unsigned10(s)[k])

RECURSIVE acc10(_, _)
acc10(s, r) ==
    IF s = <<>> THEN r
    ELSE acc10(Tail(s), 10 * r + (IndexOf(Base10Chars, Head(s)) - 1))

base10Int(s) ==
    IF s # <<>> /\ Head(s) = "-" THEN 0 - acc10(unsigned10(s), 0)
    ELSE acc10(unsigned10(s), 0)

\* str.find('.'): 0-based position, or -1 for npos
findDot(s) ==
    IF \E k \in DOMAIN s : s[k] = "."
    THEN (CHOOSE k \in DOMAIN s : s[k] = "." /\ \A j \in 1..(k - 1) : s[j] # ".") - 1
    ELSE 0 - 1

\* base10<float>: the integer and the fractional part handed to base10<int>
floatInt(s) == Substr(unsigned10(s), 0, findDot(unsigned10(s)))

floatFrac(s) ==
    LET u == unsigned10(s)
    IN Substr(u, findDot(u) + 1, Len(u) - (findDot(u) + 1))

base10FloatAsserts(s) ==
    IF findDot(s) >= 0
    THEN /\ floatInt(s) # <<>> => base10IntAsserts(floatInt(s))
         /\ floatFrac(s) # <<>> => base10IntAsserts(floatFrac(s))
    ELSE base10IntAsserts(s)

\* base10<float>: the value as the fraction num/den (float rounding is not
\* modelled).
base10Float(s) ==
    IF findDot(s) >= 0
    THEN LET sign == IF Head(s) = "-" THEN 0 - 1 ELSE 1
             fs == Len(floatFrac(s))
             ip == IF floatInt(s) # <<>> THEN base10Int(floatInt(s)) ELSE 0
             fp == IF fs > 0 THEN base10Int(floatFrac(s)) ELSE 0
         IN [num |-> sign * (ip * pow(10, fs) + fp), den |-> pow(10, fs)]
    ELSE [num |-> base10Int(s), den |-> 1]

(***************************************************************************)
(* SketchFormat::ElementsDefs and SketchFormat::parseElement.              *)
(***************************************************************************)
NameData == <<"D", "a", "t", "a">>

NamePencil == <<"P", "e", "n", "c", "i", "l">>

NameBrush == <<"B", "r", "u", "s", "h">>

NameAffine == <<"A", "f", "f", "i", "n", "e">>

NameMarker == <<"M", "a", "r", "k", "e", "r">>

ElementsDefs ==
    <<[name |-> NameData,   shape |-> "tUnbounded", n |-> 1],
      [name |-> NamePencil, shape |-> "tUnbounded", n |-> 1],
      [name |-> NameBrush,  shape |-> "tUnbounded", n |-> 2],
      [name |-> NameAffine, shape |-> "tBounded",   n |-> 9],
      [name |-> NameMarker, shape |-> "tSingle",    n |-> 1]>>

NoElement == [ok |-> FALSE, type |-> <<>>, first |-> 0, count |-> 0, i |-> 0]

\* ElementData {typeName, {&tkn[first], count}}, and the index i afterwards
ElementData(typeName, first, count, k) ==
    [ok |-> TRUE, type |-> typeName, first |-> first, count |-> count, i |-> k]

\* while (i < tkn.size() && tkn[i] != "]") i++, count++;
RECURSIVE closing(_, _)
closing(t, k) ==
    IF k < Len(t) /\ At(t, k) # <<"]">> THEN closing(t, k + 1) ELSE k

\* countMismatch without the test of the count.
countMismatchNever(count, n) == FALSE

\* if (count != v.n) return {};
countMismatch(count, n) == count # n

\* The tSingle visitor, i already past the type name.
parseSingle(t, typeName, k) ==
    IF k + 2 > Len(t) THEN NoElement
    ELSE IF At(t, k) # <<":">> THEN NoElement
    ELSE ElementData(typeName, k + 1, 1, k + 2)

\* The tBounded (bounded = TRUE) and tUnbounded visitors.
parseBracketed(t, typeName, k, bounded, n) ==
    IF k + 2 > Len(t) THEN NoElement
    ELSE IF At(t, k) # <<":">> THEN NoElement
    ELSE IF At(t, k + 1) # <<"[">> THEN NoElement
    ELSE LET close == closing(t, k + 2)
             count == close - (k + 2)
         IN IF close = Len(t) THEN NoElement
            ELSE IF bounded /\ countMismatch(count, n) THEN NoElement
            ELSE ElementData(typeName, close - count, count, close + 1)

\* parseElement with a type name that is not in ElementsDefs taken as an
\* element without members.
parseElementAnyName(t, k) ==
    IF k + 1 > Len(t) THEN NoElement
    ELSE LET typeName == At(t, k)
             match == {d \in DOMAIN ElementsDefs : ElementsDefs[d].name = typeName}
         IN IF match = {} THEN ElementData(typeName, k + 1, 0, k + 1)
            ELSE LET v == ElementsDefs[CHOOSE d \in match : TRUE]
                 IN IF v.shape = "tSingle" THEN parseSingle(t, typeName, k + 1)
                    ELSE parseBracketed(t, typeName, k + 1,
                                        v.shape = "tBounded", v.n)

parseElement(t, k) ==
    IF k + 1 > Len(t) THEN NoElement
    ELSE LET typeName == At(t, k)
             match == {d \in DOMAIN ElementsDefs : ElementsDefs[d].name = typeName}
         IN IF match = {} THEN NoElement
            ELSE LET v == ElementsDefs[CHOOSE d \in match : TRUE]
                 IN IF v.shape = "tSingle" THEN parseSingle(t, typeName, k + 1)
                    ELSE parseBracketed(t, typeName, k + 1,
                                        v.shape = "tBounded", v.n)

\* currElem->members[j]. An index j >= members.size() is read past the span:
\* the span lies inside tkn and is followed there by at least the `]` token
\* (what an unchecked span yields).
member(t, e, j) == At(t, e.first + j)

members(t, e) == [j \in 1..e.count |-> member(t, e, j - 1)]

(***************************************************************************)
(* SketchFormat::parse.                                                    *)
(***************************************************************************)
\* std::string_view{arg}.contains(x): x occurs in arg
contains(arg, x) ==
    \E k \in 0..(Len(arg) - Len(x)) : SubSeq(arg, k + 1, k + Len(x)) = x

\* isAny(x, args...) for a string_view x and string literals args
isAnyOf(x, args) == \E a \in args : contains(a, x)

\* while (i < tkn.size() && !isAny(tkn[i], ",", ";")) parseElement ...
\* [ok, list, i]: ok = FALSE is the `return {}` of a failed parseElement
RECURSIVE collect(_, _, _)
collect(t, k, list) ==
    IF k < Len(t) /\ ~isAnyOf(At(t, k), {<<",">>, <<";">>})
    THEN LET e == parseElement(t, k)
         IN IF e.ok THEN collect(t, e.i, Append(list, e))
            ELSE [ok |-> FALSE, list |-> list, i |-> k]
    ELSE [ok |-> TRUE, list |-> list, i |-> k]

\* window with the 6 digits of Data and Pencil for Brush too.
windowSix(isBrush) == 6

\* The window of a member's digits: 8 for Brush, 6 otherwise.
window(isBrush) == IF isBrush THEN 8 ELSE 6

\* pointOf with x and y taken from each other's digits.
pointOfSwapped(digits, isBrush) ==
    [x |-> base36s(3, Substr(digits, 3, 3)),
     y |-> base36s(3, Substr(digits, 0, 3)),
     pressure |-> IF isBrush
                  THEN [num |-> base36u(2, Substr(digits, 6, 2)),
                        den |-> 36 * 36 - 1]
                  ELSE [num |-> 1, den |-> 1]]

\* Point {x, y, pressure} of one full window of digits
pointOf(digits, isBrush) ==
    [x |-> base36s(3, Substr(digits, 0, 3)),
     y |-> base36s(3, Substr(digits, 3, 3)),
     pressure |-> IF isBrush
                  THEN [num |-> base36u(2, Substr(digits, 6, 2)),
                        den |-> 36 * 36 - 1]
                  ELSE [num |-> 1, den |-> 1]]

pointAsserts(digits, isBrush) ==
    /\ base36Asserts(3, Substr(digits, 0, 3))
    /\ base36Asserts(3, Substr(digits, 3, 3))
    /\ isBrush => base36Asserts(2, Substr(digits, 6, 2))

\* for (char c : member) { ... }  then assert(digits.empty())
\* [ok, points]: ok = FALSE when an assert fails
RECURSIVE decodePoints(_, _, _, _)
decodePoints(s, digits, points, isBrush) ==
    IF s = <<>> THEN [ok |-> digits = <<>>, points |-> points]
    ELSE IF Head(s) = "'" THEN decodePoints(Tail(s), digits, points, isBrush)
    ELSE LET d == Append(digits, Head(s))
         IN IF Len(d) < window(isBrush)
            THEN decodePoints(Tail(s), d, points, isBrush)
            ELSE IF ~pointAsserts(d, isBrush)
            THEN [ok |-> FALSE, points |-> points]
            ELSE decodePoints(Tail(s), <<>>, Append(points, pointOf(d, isBrush)),
                              isBrush)

\* The number of members one stroke takes: the diameter member of a Brush,
\* then the point data.
stride(isBrush) == IF isBrush THEN 2 ELSE 1

\* for (j = 0; j < members.size(); ) { ... timelineAtoms.push_back(stroke) }
\* [ok, atoms, oob]: ok = FALSE when an assert fails, oob = TRUE when a member
\* index >= members.size() was read
RECURSIVE strokes(_, _, _, _, _, _)
strokes(t, e, j, isBrush, atoms, oob) ==
    IF j >= e.count THEN [ok |-> TRUE, atoms |-> atoms, oob |-> oob]
    ELSE LET jp == j + stride(isBrush) - 1
             o == oob \/ jp >= e.count
             dOk == isBrush => base36Asserts(2, member(t, e, j))
             diameter == IF isBrush THEN base36u(2, member(t, e, j)) ELSE 3
             pts == decodePoints(member(t, e, jp), <<>>, <<>>, isBrush)
         IN IF ~dOk THEN [ok |-> FALSE, atoms |-> atoms, oob |-> oob]
            ELSE IF ~pts.ok THEN [ok |-> FALSE, atoms |-> atoms, oob |-> o]
            ELSE strokes(t, e, jp + 1, isBrush,
                         Append(atoms, [kind |-> "Stroke", diameter |-> diameter,
                                        points |-> pts.points]), o)

\* assert(message.starts_with('(') && message.ends_with(')'))
markerAsserts(message) ==
    message # <<>> /\ Head(message) = "(" /\ message[Len(message)] = ")"

\* message.remove_prefix(1), message.remove_suffix(1)
markerMessage(message) == SubSeq(message, 2, Len(message) - 1)

\* PARSE MAIN ELEMENT: timelineAtoms of the first element of a statement
mainElement(t, e) ==
    IF isAnyOf(e.type, {NameData, NamePencil, NameBrush})
    THEN strokes(t, e, 0, e.type = NameBrush, <<>>, FALSE)
    ELSE IF e.type = NameMarker
    THEN IF markerAsserts(member(t, e, 0))
         THEN [ok |-> TRUE, oob |-> FALSE,
               atoms |-> <<[kind |-> "Marker",
                            message |-> markerMessage(member(t, e, 0))]>>]
         ELSE [ok |-> FALSE, atoms |-> <<>>, oob |-> FALSE]
    ELSE [ok |-> TRUE, atoms |-> <<>>, oob |-> FALSE]

\* modifiers with no element taken as a modifier.
modifiersNone(t, list, mods) == [ok |-> TRUE, mods |-> mods]

\* PARSE ALL MODIFIERS: the elements after the first
RECURSIVE modifiers(_, _, _)
modifiers(t, list, mods) ==
    IF list = <<>> THEN [ok |-> TRUE, mods |-> mods]
    ELSE LET e == Head(list)
         IN IF e.type = NameAffine
            THEN IF \A j \in 0..8 : base10FloatAsserts(member(t, e, j))
                 THEN modifiers(t, Tail(list),
                                Append(mods, [kind |-> "Affine",
                                              m |-> [j \in 1..9 |->
                                                     base10Float(member(t, e, j - 1))]]))
                 ELSE [ok |-> FALSE, mods |-> mods]
            ELSE modifiers(t, Tail(list), mods)

\* splice at result.atoms.end().
spliceAtEnd(atoms, timelineAtoms) == atoms \o timelineAtoms

\* result.atoms.splice(result.atoms.begin(), timelineAtoms)
splice(atoms, timelineAtoms) == timelineAtoms \o atoms

\* if (isGrouping) { ...; result.elements.push_back(timelineElem); }
pushElement(elements, table, type, atoms, mods) ==
    IF type \in table
    THEN Append(elements, [type |-> type, atoms |-> atoms, modifiers |-> mods])
    ELSE elements

\* breaks without the break.
breaksNever(t, k) == FALSE

\* if (i < tkn.size() && tkn[i] == ";") break;
breaks(t, k) == k < Len(t) /\ At(t, k) = <<";">>

EmptySketch == [status |-> "sketch", elements |-> <<>>, atoms |-> <<>>]

Failure == [status |-> "fail", elements |-> <<>>, atoms |-> <<>>]

Aborted == [status |-> "assert", elements |-> <<>>, atoms |-> <<>>]

\* parseEarly with an empty Sketch for no tokens.
parseEarlyEmptySketch(t) ==
    IF t = <<>> THEN "sketch"
    ELSE IF At(t, 0) = <<";">> THEN "sketch"
    ELSE "loop"

\* The two returns ahead of the loop: "fail", "sketch" (empty) or "loop".
parseEarly(t) ==
    IF t = <<>> THEN "fail"
    ELSE IF At(t, 0) = <<";">> THEN "sketch"
    ELSE "loop"

\* One iteration of the statement loop at index k with the Sketch res built
\* so far: [sketch, i, oob], sketch.status "loop" when the loop goes on.
statement(t, k, res, table) ==
    LET c == collect(t, k, <<>>)
    IN IF ~c.ok \/ c.list = <<>> THEN [sketch |-> Failure, i |-> c.i, oob |-> FALSE]
       ELSE LET e == Head(c.list)
                main == mainElement(t, e)
                mods == modifiers(t, Tail(c.list), <<>>)
            IN IF ~main.ok \/ ~mods.ok
               THEN [sketch |-> Aborted, i |-> c.i, oob |-> main.oob]
               ELSE LET r == [elements |-> pushElement(res.elements, table, e.type,
                                                       main.atoms, mods.mods),
                              atoms |-> splice(res.atoms, main.atoms)]
                        goes == ~breaks(t, c.i) /\ c.i + 1 < Len(t)
                    IN [sketch |-> [status |-> IF goes THEN "loop" ELSE "sketch",
                                    elements |-> r.elements, atoms |-> r.atoms],
                        i |-> IF breaks(t, c.i) THEN c.i ELSE c.i + 1,
                        oob |-> main.oob]

\* The statement loop from index k on, up to the return of parse: the
\* record of its last iteration.
RECURSIVE parseLoop(_, _, _, _)
parseLoop(t, k, res, table) ==
    LET s == statement(t, k, res, table)
    IN IF s.sketch.status = "loop" THEN parseLoop(t, s.i, s.sketch, table)
       ELSE s

\* SketchFormat::parse as a function of its tokens (and of the table of
\* grouping names): what it returns, and the index i it stopped at.
parseRun(t, table) ==
    IF parseEarly(t) = "fail" THEN [sketch |-> Failure, i |-> 0, oob |-> FALSE]
    ELSE IF parseEarly(t) = "sketch"
    THEN [sketch |-> EmptySketch, i |-> 0, oob |-> FALSE]
    ELSE parseLoop(t, 0, [status |-> "loop", elements |-> <<>>, atoms |-> <<>>],
                   table)

parse(t, table) == parseRun(t, table).sketch

(***************************************************************************)
(* Token sequences handed to parse directly: every concatenation of at     *)
(* most MaxChunks chunks.                                                  *)
(***************************************************************************)
Tok(s) == <<s>>

ChunkMarker == <<NameMarker, <<":">>, <<"(", "a", ")">>>>

ChunkMarkerHead == <<NameMarker, <<":">>>>

ChunkData ==
    <<NameData, <<":">>, <<"[">>, <<"0", "0", "0", "0", "0", "1">>, <<"]">>>>

ChunkBrush ==
    <<NameBrush, <<":">>, <<"[">>, <<"0", "A">>,
      <<"0", "0", "0", "0", "0", "1", "0", "A">>, <<"]">>>>

ChunkAffine ==
    <<NameAffine, <<":">>, <<"[">>, <<"1">>, <<"2">>, <<"3">>, <<"4">>, <<"5">>,
      <<"6">>, <<"7">>, <<"8">>, <<"9">>, <<"]">>>>

Chunks ==
    {ChunkMarker, ChunkMarkerHead, ChunkData, ChunkBrush, ChunkAffine,
     <<Tok(";")>>, <<Tok(",")>>, <<Tok("X")>>}

RECURSIVE Flatten(_)
Flatten(ss) == IF ss = <<>> THEN <<>> ELSE Head(ss) \o Flatten(Tail(ss))

TokenSeqs == {Flatten(cs) : cs \in SeqsUpTo(Chunks, MaxChunks)}

\* The contents elementTypeFromString (types.hh) may have: the names parse
\* looks up in it are the type names of ElementsDefs.
GroupingTables ==
    {{}, {NameData, NamePencil, NameBrush},
     {NameData, NamePencil, NameBrush, NameAffine, NameMarker}}

(***************************************************************************)
(* The program.                                                            *)
(***************************************************************************)
\* main.cc: SketchFormat::parse(tokens) on what tokenize returned.
CallParse ==
    /\ pc = "tokens"
    /\ tkn' = TokenTexts(str, result)
    /\ pc' = "parse"
    /\ i' = 0
    /\ UNCHANGED <<str, prevState, tokenStart, parenCount, result, sketch,
                   elementTypeFromString, oobRead, verifyState,
                   verified>>

\* parse up to its loop: the two early returns.
ParseEnter ==
    /\ pc = "parse"
    /\ pc' = IF parseEarly(tkn) = "loop" THEN "statement" ELSE "done"
    /\ sketch' = IF parseEarly(tkn) = "fail" THEN Failure
                 ELSE IF parseEarly(tkn) = "sketch" THEN EmptySketch
                 ELSE [status |-> "loop", elements |-> <<>>, atoms |-> <<>>]
    /\ i' = 0
    /\ UNCHANGED <<str, prevState, tokenStart, parenCount, result, tkn,
                   elementTypeFromString, oobRead, verifyState,
                   verified>>

\* One iteration of parse's statement loop, up to the return it may reach.
ParseStatement ==
    /\ pc = "statement"
    /\ LET s == statement(tkn, i, sketch, elementTypeFromString)
       IN /\ sketch' = s.sketch
          /\ i' = s.i
          /\ oobRead' = (oobRead \/ s.oob)
          /\ pc' = IF s.sketch.status = "loop" THEN "statement" ELSE "done"
    /\ UNCHANGED <<str, prevState, tokenStart, parenCount, result, tkn,
                   elementTypeFromString, verifyState, verified>>

\* main.cc: the text of the file goes to tokenize.
InitText(texts) ==
    /\ pc = "tokenize"
    /\ str \in texts
    /\ tkn = <<>>

\* parse called on a token sequence of its own.
InitTokens ==
    /\ pc = "parse"
    /\ str = <<>>
    /\ tkn \in TokenSeqs

\* The state before the first step, but for the input.
InitRest ==
    /\ i = 0
    /\ prevState = "LineStart"
    /\ tokenStart = 0
    /\ parenCount = 0
    /\ result = <<>>
    /\ sketch = NoSketch
    /\ oobRead = FALSE
    /\ verifyState = "S0"
    /\ verified = "none"

Init ==
    /\ InitText(ExampleTexts) \/ InitTokens
    /\ InitRest
    /\ elementTypeFromString \in GroupingTables

Next ==
    \/ TokenizeStep
    \/ CallParse
    \/ ParseEnter
    \/ ParseStatement

\* The program on the example texts and on token sequences of its own.
Spec == Init /\ [][Next]_vars

TokenizeInit ==
    /\ InitText(Texts)
    /\ InitRest
    /\ elementTypeFromString = {}

TokenizeNext == TokenizeStep

\* tokenize alone, on every text of Texts.
TokenizeSpec == TokenizeInit /\ [][TokenizeNext]_vars

(***************************************************************************)
(* RawFormat::verify.                                                      *)
(***************************************************************************)
\* The conditional chain of the isBase36 branch.
verifyNext(st) ==
    IF st = "S0" THEN "X1"
    ELSE IF st = "X1" THEN "X2"
    ELSE IF st = "X2" THEN "Y1"
    ELSE IF st = "Y1" THEN "Y2"
    ELSE "X1"

\* (state == S0 || state == Y2) of the isWhitespace branch
verifySpace(st) == st \in {"S0", "Y2"}

\* verifyEnd with every state accepted at the end of the stream.
verifyEndAlways(st) == TRUE

\* return state == S0 || state == Y2;
verifyEnd(st) == st \in {"S0", "Y2"}

\* The bool verify returns, as the value of `verified`.
Bool(b) == IF b THEN "true" ELSE "false"

\* RawSketch result {};
NoRawSketch == [status |-> "ok", strokes |-> <<>>]

\* One iteration of the loop of verify (one is.get(c)), or its return at the
\* end of the stream.  Once verify has returned, RawFormat::parse is handed
\* the same text.
VerifyStep ==
    /\ pc = "verify"
    /\ IF i = Len(str)
       THEN /\ verified' = Bool(verifyEnd(verifyState))
            /\ pc' = "rawparse"
            /\ i' = 0
            /\ result' = NoRawSketch
            /\ UNCHANGED verifyState
       ELSE IF isBase36(At(str, i))
       THEN /\ verifyState' = verifyNext(verifyState)
            /\ i' = i + 1
            /\ UNCHANGED <<pc, verified, result>>
       ELSE IF isWhitespace(At(str, i)) /\ verifySpace(verifyState)
       THEN /\ verifyState' = "S0"
            /\ i' = i + 1
            /\ UNCHANGED <<pc, verified, result>>
       ELSE /\ verified' = "false"
            /\ pc' = "rawparse"
            /\ i' = 0
            /\ result' = NoRawSketch
            /\ UNCHANGED verifyState
    /\ UNCHANGED <<str, prevState, tokenStart, parenCount, tkn, sketch, oobRead,
                   elementTypeFromString>>

(***************************************************************************)
(* RawFormat::parse.                                                       *)
(***************************************************************************)
\* The whitespace of operator>> and std::ws (std::isspace, "C" locale; the
\* vertical tab has no TLA+ escape and is left out).
isStreamSpace(c) == c \in {" ", "\t", "\n", "\r", "\f"}

\* is >> std::ws: the index of the first character at or after k that is not
\* whitespace, s.size() at the end of the stream
RECURSIVE skipWs(_, _)
skipWs(s, k) ==
    IF k < Len(s) /\ isStreamSpace(At(s, k)) THEN skipWs(s, k + 1) ELSE k

\* is >> line: the index behind the characters extracted from k on
RECURSIVE wordEnd(_, _)
wordEnd(s, k) ==
    IF k < Len(s) /\ ~isStreamSpace(At(s, k)) THEN wordEnd(s, k + 1) ELSE k

\* rawStep with the index advanced by 2.
rawStepTwo(k) == k + 2

\* i+=4
rawStep(k) == k + 4

\* The values i takes in `for (i = 0; i < line.size(); i += 4)`, from k on.
RECURSIVE rawWindows(_, _)
rawWindows(line, k) ==
    IF k >= Len(line) THEN {} ELSE {k} \cup rawWindows(line, rawStep(k))

\* The arguments <<pos, n>> of the calls line.substr(pos, n) of the loop.
rawReads(line) ==
    UNION {{<<k, 2>>, <<k + 2, 2>>} : k \in rawWindows(line, 0)}

\* The lines `is >> std::ws >> line` extracts from index k on, in order.
RECURSIVE rawLines(_, _)
rawLines(s, k) ==
    LET a == skipWs(s, k)
        b == wordEnd(s, a)
    IN IF a = Len(s) THEN <<>>
       ELSE <<SubSeq(s, a + 1, b)>> \o rawLines(s, b)

\* for (i = 0; i < line.size(); i += 4) from index k on, the points so far in
\* points.  status "assert": an assert of base36 failed; "throw":
\* line.substr(i+2, 2) with i+2 > line.size() threw std::out_of_range.
RECURSIVE rawPoints(_, _, _)
rawPoints(line, k, points) ==
    IF k >= Len(line) THEN [status |-> "ok", points |-> points]
    ELSE IF ~base36Asserts(3, Substr(line, k, 2))
    THEN [status |-> "assert", points |-> points]
    ELSE IF k + 2 > Len(line)
    THEN [status |-> "throw", points |-> points]
    ELSE IF ~base36Asserts(3, Substr(line, k + 2, 2))
    THEN [status |-> "assert", points |-> points]
    ELSE rawPoints(line, rawStep(k),
                   Append(points, [x |-> base36s(3, Substr(line, k, 2)),
                                   y |-> base36s(3, Substr(line, k + 2, 2))]))

\* One iteration of the loop of RawFormat::parse (one `is >> std::ws >> line`
\* and the stroke of that line), or its return when the extraction fails.
RawParseLine ==
    /\ pc = "rawparse"
    /\ LET a == skipWs(str, i)
           b == wordEnd(str, a)
           line == SubSeq(str, a + 1, b)
           stroke == rawPoints(line, 0, <<>>)
       IN IF a = Len(str)
          THEN /\ pc' = "done"
               /\ i' = a
               /\ UNCHANGED result
          ELSE /\ i' = b
               /\ IF stroke.status = "ok"
                  THEN /\ result' = [status |-> "ok",
                                     strokes |-> Append(result.strokes,
                                                        stroke.points)]
                       /\ pc' = "rawparse"
                  ELSE /\ result' = [status |-> stroke.status,
                                     strokes |-> result.strokes]
                       /\ pc' = "done"
    /\ UNCHANGED <<str, prevState, tokenStart, parenCount, tkn, sketch, oobRead,
                   elementTypeFromString, verifyState, verified>>

(***************************************************************************)
(* Texts handed to RawFormat: every text of at most MaxTextLen characters  *)
(* over RawAlphabet, and every concatenation of at most MaxChunks pieces.  *)
(***************************************************************************)
RawAlphabet == {"0", "z", " ", "\n", "-"}

RawVerifyExample == <<"0", "A", "0", "B", "\n", "1", "C", "1", "D">>

RawShortExample == <<"0", "A", "0">>

RawPieces ==
    {<<"0", "A", "0", "B">>, <<"1", "C", "1", "D">>, <<"z", "Z">>, <<" ">>,
     <<"\n">>}

RawTexts ==
    SeqsUpTo(RawAlphabet, MaxTextLen)
       \cup {Flatten(ps) : ps \in SeqsUpTo(RawPieces, MaxChunks)}
       \cup {RawVerifyExample, RawShortExample}

RawInit ==
    /\ pc = "verify"
    /\ str \in RawTexts
    /\ tkn = <<>>
    /\ InitRest
    /\ elementTypeFromString = {}

RawNext ==
    \/ VerifyStep
    \/ RawParseLine

\* RawFormat::verify, then RawFormat::parse, on every text of RawTexts.
RawSpec == RawInit /\ [][RawNext]_vars

(***************************************************************************)
(* ParserBase::base36<3,int16_t> on every string of 3 base-36 characters.  *)
(***************************************************************************)
Base36Chars == Range(Base10Chars) \cup Range(LowerChars) \cup Range(UpperChars)

\* The call base36<3,int16_t>(str) and its return value.
Base36Call ==
    /\ pc = "base36"
    /\ result' = base36s(3, str)
    /\ pc' = "done"
    /\ UNCHANGED <<str, i, prevState, tokenStart, parenCount, tkn, sketch,
                   oobRead, elementTypeFromString, verifyState, verified>>

CodecInit ==
    /\ pc = "base36"
    /\ str \in [1..3 -> Base36Chars]
    /\ tkn = <<>>
    /\ InitRest
    /\ elementTypeFromString = {}

CodecNext == Base36Call

CodecSpec == CodecInit /\ [][CodecNext]_vars

(***************************************************************************)
(* SketchFormat::parse on one Data or Pencil element of at most MaxMembers *)
(* members, each a run of 6-digit windows with `'` separators in it.       *)
(***************************************************************************)
MaxMembers == 2

\* d with a `'` put in front of its character at index p (behind d for
\* p = Len(d)).
QuoteAt(d, p) == SubSeq(d, 1, p) \o <<"'">> \o SubSeq(d, p + 1, Len(d))

OneWindow == <<"0", "0", "0", "0", "0", "A">>

TwoWindows == <<"I", "0", "0", "H", "Z", "Z", "Z", "z", "Z", "0", "0", "i">>

StrokeMembers ==
    {OneWindow, TwoWindows, <<"'">>}
       \cup {QuoteAt(OneWindow, p) : p \in 0..Len(OneWindow)}
       \cup {QuoteAt(QuoteAt(TwoWindows, p), p + 4) : p \in {0, 3, 6, 9}}

StrokeSeqs ==
    {<<name, Tok(":"), Tok("[")>> \o ms \o <<Tok("]")>> :
        name \in {NameData, NamePencil}, ms \in SeqsUpTo(StrokeMembers, MaxMembers)}

StrokeInit ==
    /\ pc = "parse"
    /\ str = <<>>
    /\ tkn \in StrokeSeqs
    /\ InitRest
    /\ elementTypeFromString = {NameData, NamePencil, NameBrush}

StrokeNext ==
    \/ ParseEnter
    \/ ParseStatement

\* SketchFormat::parse on every token sequence of StrokeSeqs.
StrokeSpec == StrokeInit /\ [][StrokeNext]_vars

(***************************************************************************)
(* The text format as a reader sees it, independently of the automaton of  *)
(* tokenize: a character is read in code, inside a comment or inside a     *)
(* string literal.                                                         *)
(***************************************************************************)
\* The context after the character c read in context x.
RefStep(x, c) ==
    IF x.m = "comment"
    THEN IF isNewline(c) THEN [m |-> "code", depth |-> 0] ELSE x
    ELSE IF x.m = "string"
    THEN LET d == IF c = "(" THEN x.depth + 1
                  ELSE IF c = ")" THEN x.depth - 1
                  ELSE x.depth
         IN IF d = 0 THEN [m |-> "code", depth |-> 0]
            ELSE [m |-> "string", depth |-> d]
    ELSE IF c = "%" /\ x.ls THEN [m |-> "comment", depth |-> 0]
    ELSE IF c = "(" THEN [m |-> "string", depth |-> 1]
    ELSE x

\* The context the character at index k (0-based) is read in; ls: k is the
\* first character of its line.
RECURSIVE Ref(_, _)
Ref(s, k) ==
    IF k = 0 THEN [m |-> "code", depth |-> 0, ls |-> TRUE]
    ELSE LET y == RefStep(Ref(s, k - 1), At(s, k - 1))
         IN [m |-> y.m, depth |-> y.depth,
             ls |-> y.m = "code" /\ isNewline(At(s, k - 1))]

Positions(s) == 0..(Len(s) - 1)

\* The characters of s outside comments and strings that are c.
CodeChar(s, k, c) == k \in Positions(s) /\ At(s, k) = c /\ Ref(s, k).m = "code"

\* The first `;` outside a comment and a string; Len(s) when there is none.
FirstSemicolon(s) ==
    IF \E k \in Positions(s) : CodeChar(s, k, ";")
    THEN CHOOSE k \in Positions(s) :
            /\ CodeChar(s, k, ";")
            /\ \A j \in 0..(k - 1) : ~CodeChar(s, j, ";")
    ELSE Len(s)

\* The end of the line of index k: its newline, or Len(s).
LineEnd(s, k) ==
    IF \E j \in k..(Len(s) - 1) : isNewline(At(s, j))
    THEN CHOOSE j \in k..(Len(s) - 1) :
            isNewline(At(s, j)) /\ \A h \in k..(j - 1) : ~isNewline(At(s, h))
    ELSE Len(s)

\* The index of the `)` closing the literal opened at k; Len(s) when the
\* literal is not closed.
StringClose(s, k) ==
    IF \E q \in (k + 1)..(Len(s) - 1) : Ref(s, q + 1).m # "string"
    THEN CHOOSE q \in (k + 1)..(Len(s) - 1) :
            /\ Ref(s, q + 1).m # "string"
            /\ \A h \in (k + 1)..(q - 1) : Ref(s, h + 1).m = "string"
    ELSE Len(s)

Tokens == {result[k] : k \in DOMAIN result}

\* The token t holds a character of the indices a..b.
Overlaps(t, a, b) == t.len > 0 /\ t.start <= b /\ t.start + t.len > a

Returned == pc = "tokens"

\* tokenize returned from inside its loop (at the `;` test), at index i.
ReturnedEarly == pc = "tokens" /\ i <= Len(str)

ClaimedCommentStart(s, k) ==
    /\ CodeChar(s, k, "%")
    /\ \/ k = 0
       \/ isWhitespace(At(s, k - 1))
       \/ isOpChar(At(s, k - 1))
       \/ At(s, k - 1) = ")"

NoTokenInLine(s, k) == \A t \in Tokens : ~Overlaps(t, k, LineEnd(s, k))

CommentStart(s, k) ==
    /\ CodeChar(s, k, "%")
    /\ k = 0 \/ isNewline(At(s, k - 1))

\* The opening `(` of the literal the text ends in.
LastOpen(s) ==
    CHOOSE k \in Positions(s) :
        CodeChar(s, k, "(") /\ \A j \in (k + 1)..(Len(s) - 1) : ~CodeChar(s, j, "(")

EndsInString == i > Len(str) /\ Ref(str, Len(str)).m = "string"

(***************************************************************************)
(* C1.  tokenize stops at the first `;` outside a comment and a string: no *)
(* character after that `;` is part of a token of the output.  The code    *)
(* tests str[i] where the Op just emitted is str[i-1], so it goes on after *)
(* `A;` and the claim fails on `A;extra`.                                  *)
(***************************************************************************)
C1_NoTokenAfterSemicolon ==
    Returned =>
        \A t \in Tokens : ~Overlaps(t, FirstSemicolon(str) + 1, Len(str))

(***************************************************************************)
(* C2.  Every one of `:` `[` `]` `,` `;` outside a comment and a string,   *)
(* up to and including the first such `;`, is a one-character token of the *)
(* output, and `A: [1,2,3];extra` gives A : [ 1 , 2 , 3 ] ; .  The code    *)
(* returns before it emits a `;` that follows another Op character.        *)
(***************************************************************************)
C2_EveryOpIsAToken ==
    Returned =>
        /\ \A k \in 0..FirstSemicolon(str) :
              (k < Len(str) /\ isOpChar(At(str, k)) /\ Ref(str, k).m = "code")
                 => [start |-> k, len |-> 1] \in Tokens
        /\ str = TextListExtra =>
              TokenTexts(str, result) =
                 <<Tok("A"), Tok(":"), Tok("["), Tok("1"), Tok(","), Tok("2"),
                   Tok(","), Tok("3"), Tok("]"), Tok(";")>>

(***************************************************************************)
(* C3.  As claimed: a `%` at the start of a line, or right after           *)
(* whitespace or a completed token (an Op character, a closed string),     *)
(* begins a comment, and no character from it to the end of the line is    *)
(* part of a token; `A % foo` gives the token A alone.                     *)
(***************************************************************************)
C3_CommentAfterSpaceOrToken ==
    Returned =>
        /\ \A k \in Positions(str) :
              ClaimedCommentStart(str, k) => NoTokenInLine(str, k)
        /\ str = TextCommentLine => result = <<>>
        /\ str = TextTrailingComment => TokenTexts(str, result) = <<Tok("A")>>

(***************************************************************************)
(* C3, amended.  A `%` that is the first character of the text or comes    *)
(* right after a newline character, outside a string, begins a comment,    *)
(* and no character from it to the end of the line is part of a token:     *)
(* `% foo` and a newline give no token.  A `%` anywhere else in a line is  *)
(* an ordinary character: `A % foo` gives the tokens A, %, foo.            *)
(***************************************************************************)
C3_CommentAtLineStart ==
    Returned =>
        /\ \A k \in Positions(str) :
              CommentStart(str, k) => NoTokenInLine(str, k)
        /\ str = TextCommentLine => result = <<>>
        /\ str = TextTrailingComment =>
              TokenTexts(str, result) = <<Tok("A"), Tok("%"), <<"f", "o", "o">>>>

\* A comment with text in it, and a token on the line after it.
C3_Witness ==
    /\ Returned
    /\ \E k \in Positions(str) :
          /\ CommentStart(str, k)
          /\ LineEnd(str, k) > k + 1
          /\ \E t \in Tokens : t.start > LineEnd(str, k)

(***************************************************************************)
(* C4.  A `(` outside a comment and a string opens a string literal of     *)
(* depth 1; the depth follows the nested `(` and `)`, and when it is 0     *)
(* again exactly one token is emitted, from the opening `(` to the closing *)
(* `)`.  Nothing inside the literal is a token of its own, and a `;`       *)
(* inside it does not end tokenize.  After every step, for the characters  *)
(* read so far (those below i):                                            *)
(***************************************************************************)
C4_StringLiteral ==
    /\ \A k \in Positions(str) :
          (k < i /\ CodeChar(str, k, "(")) =>
              LET q == StringClose(str, k)
              IN IF q < Len(str) /\ q < i
                 THEN /\ [start |-> k, len |-> q - k + 1] \in Tokens
                      /\ \A t \in Tokens :
                            Overlaps(t, k, q) => t = [start |-> k, len |-> q - k + 1]
                      /\ Cardinality({h \in DOMAIN result : result[h].start = k}) = 1
                 ELSE i <= Len(str) => \A t \in Tokens : ~Overlaps(t, k, Len(str))
    /\ (pc = "tokenize" /\ i <= Len(str)) =>
          /\ prevState = "String" <=> Ref(str, i).m = "string"
          /\ prevState = "String" => parenCount = Ref(str, i).depth
    /\ ReturnedEarly => Ref(str, i).m = "code"

\* A closed literal with a nested pair and a `;` in it, and a token after it.
C4_Witness ==
    /\ Returned
    /\ \E k \in Positions(str) :
          /\ CodeChar(str, k, "(")
          /\ StringClose(str, k) < Len(str) - 1
          /\ \E h \in (k + 1)..StringClose(str, k) :
                At(str, h) = ";" /\ Ref(str, h).depth = 2
          /\ \E t \in Tokens : t.start > StringClose(str, k)

(***************************************************************************)
(* C5.  When the text ends while tokenize is inside a string literal, it   *)
(* returns normally and the last token of the output is that literal, from *)
(* its opening `(` to the end of the text; no other token holds one of its *)
(* characters.                                                             *)
(***************************************************************************)
C5_UnterminatedString ==
    (Returned /\ EndsInString) =>
        /\ result # <<>>
        /\ result[Len(result)] =
              [start |-> LastOpen(str), len |-> Len(str) - LastOpen(str)]
        /\ \A h \in 1..(Len(result) - 1) :
              ~Overlaps(result[h], LastOpen(str), Len(str))

\* `(foo(bar`, and a text with a token before the open literal.
C5_Witness ==
    /\ Returned
    /\ EndsInString
    /\ str = TextUnbalanced \/ (Len(result) = 2 /\ Len(str) <= 4)

(***************************************************************************)
(* Claims about parseElement and parse.                                    *)
(***************************************************************************)
\* parse has the tokens of the text str (tokenize returned, parse was called).
Tokenized(text) == str = text /\ pc \in {"parse", "statement", "done"}

Done == pc = "done"

Digits1to9 ==
    <<Tok("1"), Tok("2"), Tok("3"), Tok("4"), Tok("5"), Tok("6"), Tok("7"),
      Tok("8"), Tok("9")>>

\* The tokens between the `[` at index 2 and the first `]` after it.
InBrackets(t) == closing(t, 3) - 3

Before(t, k) == SubSeq(t, 1, k - 1)

After(t, k) == SubSeq(t, k + 1, Len(t))

\* parse accepts t and its last statement ends with the last token of t.
AcceptsWhole(t, table) ==
    /\ parseEarly(t) = "loop"
    /\ parseRun(t, table).sketch.status = "sketch"
    /\ parseRun(t, table).i = Len(t) + 1

\* parse accepts t, which begins with a statement.
Accepts(t, table) ==
    /\ parseEarly(t) = "loop"
    /\ parseRun(t, table).sketch.status = "sketch"

SplitAt(k) ==
    /\ k \in DOMAIN tkn
    /\ tkn[k] = Tok(",")
    /\ AcceptsWhole(Before(tkn, k), elementTypeFromString)
    /\ Accepts(After(tkn, k), elementTypeFromString)

UpTo(t, k) == SubSeq(t, 1, k)

MarkerMember(t, k) == k >= 3 /\ t[k - 2] = NameMarker /\ t[k - 1] = Tok(":")

BrushStroke ==
    [kind |-> "Stroke", diameter |-> 10,
     points |-> <<[x |-> 0, y |-> 1, pressure |-> [num |-> 10, den |-> 1295]]>>]

(***************************************************************************)
(* C6.  As claimed: parseElement at position 0 on the tokens of            *)
(* `Affine: [1,2,3,4,5,6,7,8,9]` succeeds with the 9 members 1..9, and on  *)
(* the tokens of `Affine: [1,2,3]` it fails.                               *)
(***************************************************************************)
C6_AffineCommaList ==
    /\ Tokenized(TextAffine9) =>
          /\ parseElement(tkn, 0).ok
          /\ members(tkn, parseElement(tkn, 0)) = Digits1to9
    /\ Tokenized(TextAffine3) => ~parseElement(tkn, 0).ok

(***************************************************************************)
(* C6, amended.  parseElement at position 0 on the tokens of               *)
(* `Affine: [1 2 3 4 5 6 7 8 9]` (members separated by whitespace)         *)
(* succeeds with the 9 members 1..9 and leaves i behind the `]`.  On the   *)
(* tokens of `Affine: [1,2,3,4,5,6,7,8,9]` it fails with a count mismatch: *)
(* the `,` tokens between the brackets are counted (17 is not 9); on those *)
(* of `Affine: [1,2,3]` it fails too (5 is not 9).  parse fails with it.   *)
(***************************************************************************)
C6_AffineSpaceList ==
    /\ Tokenized(TextAffine9Spaced) =>
          /\ parseElement(tkn, 0).ok
          /\ members(tkn, parseElement(tkn, 0)) = Digits1to9
          /\ parseElement(tkn, 0).i = Len(tkn)
          /\ Done => sketch.status = "sketch"
    /\ Tokenized(TextAffine9) =>
          /\ ~parseElement(tkn, 0).ok
          /\ InBrackets(tkn) = 17 /\ closing(tkn, 3) < Len(tkn)
          /\ Done => sketch.status = "fail"
    /\ Tokenized(TextAffine3) =>
          /\ ~parseElement(tkn, 0).ok
          /\ InBrackets(tkn) = 5 /\ closing(tkn, 3) < Len(tkn)
          /\ Done => sketch.status = "fail"

\* parse has run on the whitespace-separated list.
C6_Witness == Done /\ Tokenized(TextAffine9Spaced) /\ sketch.status = "sketch"

(***************************************************************************)
(* C7.  As claimed: parse on an empty token sequence, and on one whose     *)
(* first token is `;`, returns an empty Sketch and not the failure.        *)
(***************************************************************************)
C7_EmptyIsEmptySketch ==
    (Done /\ (tkn = <<>> \/ At(tkn, 0) = Tok(";"))) => sketch = EmptySketch

(***************************************************************************)
(* C7, amended.  parse on an empty token sequence returns the failure      *)
(* signal; on any token sequence whose first token is `;` it returns an    *)
(* empty Sketch (no elements, no atoms), whatever follows the `;`.         *)
(***************************************************************************)
C7_EmptyFailsSemicolonEmpty ==
    Done =>
        /\ tkn = <<>> => sketch = Failure
        /\ (tkn # <<>> /\ At(tkn, 0) = Tok(";")) => sketch = EmptySketch

\* parse returned on `;` followed by more tokens.
C7_Witness == Done /\ Len(tkn) > 1 /\ At(tkn, 0) = Tok(";")

(***************************************************************************)
(* C8.  For statements S1..Sn that parse accepts, Sketch.atoms is          *)
(* An ++ ... ++ A1 and Sketch.elements lists the grouping statements in    *)
(* forward order.  Stated for every split of the tokens at a `,` that ends *)
(* a statement: when parse accepts the statements P before it up to their  *)
(* last token and the statements R after it, parse of the whole returns    *)
(* the atoms of R followed by those of P, and the elements of P followed   *)
(* by those of R.                                                          *)
(***************************************************************************)
C8_AtomsReversedElementsForward ==
    Done =>
        \A k \in DOMAIN tkn :
            SplitAt(k) =>
                LET P == parse(Before(tkn, k), elementTypeFromString)
                    R == parse(After(tkn, k), elementTypeFromString)
                IN /\ sketch.status = "sketch"
                   /\ sketch.atoms = R.atoms \o P.atoms
                   /\ sketch.elements = P.elements \o R.elements

\* Two statements with different atoms, both grouping.
C8_Witness ==
    /\ Done
    /\ \E k \in DOMAIN tkn :
          /\ SplitAt(k)
          /\ LET P == parse(Before(tkn, k), elementTypeFromString)
                 R == parse(After(tkn, k), elementTypeFromString)
             IN /\ P.atoms # <<>> /\ R.atoms # <<>>
                /\ P.atoms \o R.atoms # R.atoms \o P.atoms
                /\ P.elements # <<>> /\ R.elements # <<>>
                /\ P.elements # R.elements

(***************************************************************************)
(* C9.  As claimed: for all token sequences p and r, if parse(p ++ [`;`])  *)
(* returns a Sketch then parse(p ++ [`;`] ++ r) returns the same Sketch.   *)
(***************************************************************************)
C9_IgnoresAfterAnySemicolon ==
    Done =>
        \A k \in DOMAIN tkn :
            (/\ tkn[k] = Tok(";")
             /\ parse(UpTo(tkn, k), elementTypeFromString).status = "sketch")
                => sketch = parse(UpTo(tkn, k), elementTypeFromString)

(***************************************************************************)
(* C9, amended.  For all token sequences p and r, if parse(p ++ [`;`])     *)
(* returns a Sketch and p does not end with the two tokens `Marker` `:`    *)
(* (after which the `;` is the member of the Marker element and not the    *)
(* end of the statement), then parse(p ++ [`;`] ++ r) returns the same     *)
(* Sketch.                                                                 *)
(***************************************************************************)
C9_IgnoresAfterTerminator ==
    Done =>
        \A k \in DOMAIN tkn :
            (/\ tkn[k] = Tok(";")
             /\ ~MarkerMember(tkn, k)
             /\ parse(UpTo(tkn, k), elementTypeFromString).status = "sketch")
                => sketch = parse(UpTo(tkn, k), elementTypeFromString)

\* parse returned a Sketch with atoms at a `;` that malformed tokens follow.
C9_Witness ==
    /\ Done
    /\ sketch.status = "sketch"
    /\ sketch.atoms # <<>>
    /\ \E k \in DOMAIN tkn :
          /\ tkn[k] = Tok(";")
          /\ ~MarkerMember(tkn, k)
          /\ k < Len(tkn)
          /\ parse(After(tkn, k), elementTypeFromString).status = "fail"
          /\ parse(UpTo(tkn, k), elementTypeFromString).status = "sketch"

(***************************************************************************)
(* C10.  As claimed: tokenizing and parsing `Brush:[0A, 000000010A]` gives *)
(* one Stroke of diameter 10 with the one Point x=0, y=1, pressure         *)
(* 10/1295, and no assertion violation or failure.                         *)
(***************************************************************************)
C10_BrushCommaExample ==
    (Done /\ str = TextBrush) =>
        sketch.status = "sketch" /\ sketch.atoms = <<BrushStroke>>

(***************************************************************************)
(* C10, amended.  Tokenizing and parsing `Brush:[0A 0000010A]` (the two    *)
(* members separated by whitespace, the point data one window of 8         *)
(* digits) gives one Stroke of diameter 10 with the one Point x=0, y=1,    *)
(* pressure 10/1295, and no assertion violation or failure.  On            *)
(* `Brush:[0A, 000000010A]` the `,` token is read as the point data of the *)
(* first stroke and the run ends in the assertion digits.empty().          *)
(***************************************************************************)
C10_BrushExample ==
    Done =>
        /\ str = TextBrushSpaced =>
              /\ sketch.status = "sketch"
              /\ sketch.atoms = <<BrushStroke>>
              /\ ~oobRead
        /\ str = TextBrush => sketch.status = "assert"

\* parse returned on the whitespace-separated example.
C10_Witness == Done /\ str = TextBrushSpaced /\ sketch.atoms # <<>>

(***************************************************************************)
(* Claims about RawFormat.                                                 *)
(***************************************************************************)
\* verify has returned.
VerifyReturned == pc \in {"rawparse", "done"} /\ verified # "none"

\* The index of the last character of the run of base-36 characters that
\* holds index k.
RECURSIVE RunEnd(_, _)
RunEnd(s, k) ==
    IF k + 1 < Len(s) /\ isBase36(At(s, k + 1)) THEN RunEnd(s, k + 1) ELSE k

\* The maximal runs of base-36 characters of s: <<first, last>> indices.
RawRuns(s) ==
    {<<a, RunEnd(s, a)>> :
        a \in {k \in Positions(s) :
                  isBase36(At(s, k)) /\ (k = 0 \/ ~isBase36(At(s, k - 1)))}}

RunLen(r) == r[2] - r[1] + 1

\* Base-36 characters and whitespace only, in runs of a multiple of 4.
WellFormedRaw(s) ==
    /\ \A k \in Positions(s) : isBase36(At(s, k)) \/ isWhitespace(At(s, k))
    /\ \A r \in RawRuns(s) : RunLen(r) % 4 = 0

(***************************************************************************)
(* C11.  RawFormat::verify returns true exactly when every character of    *)
(* the text is a base-36 character or whitespace and every maximal run of  *)
(* base-36 characters has a length that is a multiple of 4; it returns     *)
(* true on `0A0B`, newline, `1C1D` and false on `0A0`.                     *)
(***************************************************************************)
C11_VerifyRunsOfFour ==
    VerifyReturned =>
        /\ verified = "true" <=> WellFormedRaw(str)
        /\ str = RawVerifyExample => verified = "true"
        /\ str = RawShortExample => verified = "false"

\* verify returned true on two runs, one of them of 8 characters.
C11_Witness ==
    /\ VerifyReturned
    /\ verified = "true"
    /\ Cardinality(RawRuns(str)) >= 2
    /\ \E r \in RawRuns(str) : RunLen(r) = 8

\* RawFormat::parse has returned.
RawDone == pc = "done" /\ verified # "none"

\* The 36 digits in the order of their values; a letter in either case.
Digits36 == Base10Chars \o UpperChars

Digits36Lower == Base10Chars \o LowerChars

DigitValue(c) ==
    CHOOSE n \in 0..35 : c = Digits36[n + 1] \/ c = Digits36Lower[n + 1]

\* The unsigned value of a string of base-36 digits.
RECURSIVE Unsigned36(_)
Unsigned36(w) ==
    IF w = <<>> THEN 0
    ELSE 36 * Unsigned36(SubSeq(w, 1, Len(w) - 1)) + DigitValue(w[Len(w)])

\* The points of the windows of 4 characters of w: 2 digits x, 2 digits y.
RECURSIVE WindowPoints(_)
WindowPoints(w) ==
    IF Len(w) < 4 THEN <<>>
    ELSE <<[x |-> Unsigned36(SubSeq(w, 1, 2)), y |-> Unsigned36(SubSeq(w, 3, 4))]>>
            \o WindowPoints(SubSeq(w, 5, Len(w)))

\* The lines of s (without their newline characters), the last one first.
RECURSIVE LinesReversed(_)
LinesReversed(s) ==
    IF s = <<>> THEN <<<<>>>>
    ELSE LET rest == LinesReversed(SubSeq(s, 1, Len(s) - 1))
             c == s[Len(s)]
         IN IF isNewline(c) THEN <<<<>>>> \o rest
            ELSE <<Append(Head(rest), c)>> \o Tail(rest)

RECURSIVE Reverse(_)
Reverse(q) == IF q = <<>> THEN <<>> ELSE Append(Reverse(Tail(q)), Head(q))

IsBlank(l) == \A k \in DOMAIN l : isWhitespace(l[k])

NotBlank(l) == ~IsBlank(l)

NotSpace(c) == ~isWhitespace(c)

\* The non-blank lines of s, in text order.
NonBlankLines(s) == SelectSeq(Reverse(LinesReversed(s)), NotBlank)

\* The stroke of a line: the points of the windows of its characters.
LineStroke(l) == WindowPoints(SelectSeq(l, NotSpace))

(***************************************************************************)
(* C12.  RawFormat::parse is line-oriented: for every text verify accepts, *)
(* it returns as many RawStrokes as the text has non-blank lines, and      *)
(* stroke k holds the points of all 4-character windows of the k-th        *)
(* non-blank line, a line such as `0A0B 1C1D` included.  The code extracts *)
(* whitespace-separated words (`is >> line`), not lines: on `0A0B 1C1D` it *)
(* returns two strokes of one point each.                                  *)
(***************************************************************************)
C12_OneStrokePerLine ==
    (RawDone /\ verified = "true") =>
        /\ Len(result.strokes) = Len(NonBlankLines(str))
        /\ \A k \in DOMAIN result.strokes :
              k <= Len(NonBlankLines(str))
                 => result.strokes[k] = LineStroke(NonBlankLines(str)[k])

\* The runs of base-36 characters of s from index k on, in text order.
RECURSIVE RunTexts(_, _)
RunTexts(s, k) ==
    IF k >= Len(s) THEN <<>>
    ELSE IF isBase36(At(s, k))
    THEN <<SubSeq(s, k + 1, RunEnd(s, k) + 1)>> \o RunTexts(s, RunEnd(s, k) + 1)
    ELSE RunTexts(s, k + 1)

(***************************************************************************)
(* C19.  RawFormat::verify is a sufficient guard for RawFormat::parse: on  *)
(* every text verify returns true for, parse returns without an assertion  *)
(* violation or an exception, with one RawStroke per maximal run of        *)
(* base-36 characters, in text order, of (run length)/4 points, the points *)
(* of the run's windows; while it runs, its strokes are those of the runs  *)
(* read so far; and every line.substr(pos, 2) it decodes lies inside the   *)
(* line (pos + 2 <= size) and holds base-36 characters only.               *)
(***************************************************************************)
C19_VerifyGuardsParse ==
    (VerifyReturned /\ verified = "true") =>
        LET runs == RunTexts(str, 0)
        IN /\ result.status = "ok"
           /\ Len(result.strokes) <= Len(runs)
           /\ \A k \in DOMAIN result.strokes :
                 /\ result.strokes[k] = WindowPoints(runs[k])
                 /\ Len(result.strokes[k]) * 4 = Len(runs[k])
           /\ RawDone => Len(result.strokes) = Len(runs)
           /\ rawLines(str, 0) = runs
           /\ \A k \in DOMAIN runs :
                 \A rd \in rawReads(runs[k]) :
                    /\ rd[1] + rd[2] <= Len(runs[k])
                    /\ \A h \in rd[1]..(rd[1] + rd[2] - 1) : isBase36(At(runs[k], h))

\* parse returned two strokes, one of them of two points, on a verified text.
C19_Witness ==
    /\ RawDone
    /\ verified = "true"
    /\ Len(result.strokes) >= 2
    /\ \E k \in DOMAIN result.strokes : Len(result.strokes[k]) = 2

(***************************************************************************)
(* Claims about ParserBase::base36.                                        *)
(***************************************************************************)
Base36Returned == pc = "done" /\ Len(str) = 3 /\ verified = "none" /\ tkn = <<>>

\* The signed value of the unsigned value v of N digits.
Signed36(v, N) == IF v < pow(36, N) \div 2 THEN v ELSE v - pow(36, N)

\* The 3 digits (upper case) that encode the signed value w.
Encode3(w) ==
    LET v == IF w < 0 THEN w + 46656 ELSE w
    IN <<Digits36[(v \div 1296) + 1], Digits36[((v \div 36) % 36) + 1],
         Digits36[(v % 36) + 1]>>

UpperOf(c) == Digits36[DigitValue(c) + 1]

(***************************************************************************)
(* C13.  For every string of exactly 3 base-36 characters with unsigned    *)
(* value v, base36<3,int16_t> returns v when v < 23328 and v - 46656       *)
(* otherwise, also where the 16-bit accumulator wraps (v >= 32768); the    *)
(* value returned lies in -23328..23327 and its 3-digit signed encoding is *)
(* the string (in upper case).                                             *)
(***************************************************************************)
C13_Base36SignedThreeDigits ==
    Base36Returned =>
        LET v == Unsigned36(str)
        IN /\ v \in 0..46655
           /\ v < 23328 => result = v
           /\ v >= 23328 => result = v - 46656
           /\ result = Signed36(v, 3)
           /\ result \in (0 - 23328)..23327
           /\ Encode3(result) = [k \in 1..3 |-> UpperOf(str[k])]

\* base36 returned on a string whose accumulator wrapped, and on the two
\* strings at the midpoint.
C13_Witness ==
    /\ Base36Returned
    /\ \/ str = <<"Z", "z", "Z">> /\ result = 0 - 1
       \/ str = <<"P", "A", "8">> /\ result = 0 - 13888
       \/ str = <<"I", "0", "0">> /\ result = 0 - 23328
       \/ str = <<"H", "Z", "Z">> /\ result = 23327

(***************************************************************************)
(* Claims about the order and the shape of the tokens of tokenize.         *)
(***************************************************************************)
\* The characters of the token t.
TokenChars(t) == {At(str, k) : k \in t.start..(t.start + t.len - 1)}

IsOpToken(t) == t.len = 1 /\ isOpChar(At(str, t.start))

IsStringToken(t) == At(str, t.start) = "("

IsGenericToken(t) ==
    \A c \in TokenChars(t) : ~isWhitespace(c) /\ c # "(" /\ ~isOpChar(c)

(***************************************************************************)
(* C18.  On every text tokenize returns (its loop ends within size + 1     *)
(* iterations), and after every step of the scan the tokens emitted are    *)
(* non-empty substrings of the text, each starting behind the end of the   *)
(* one before it; every token is a single Op character, a string token     *)
(* starting with `(`, or a generic token without whitespace, `(` and       *)
(* `: [ ] , ;`.                                                            *)
(***************************************************************************)
C18_TokensOrderedAndShaped ==
    /\ pc \in {"tokenize", "tokens"}
    /\ i <= Len(str) + 1
    /\ pc = "tokenize" => i <= Len(str)
    /\ \A k \in DOMAIN result :
          /\ result[k].len >= 1
          /\ result[k].start >= 0
          /\ result[k].start + result[k].len <= Len(str)
          /\ k > 1 => result[k].start >= result[k - 1].start + result[k - 1].len
          /\ IsOpToken(result[k]) \/ IsStringToken(result[k])
                \/ IsGenericToken(result[k])

\* tokenize returned an Op token, a string token and a generic token.
C18_Witness ==
    /\ Returned
    /\ \E a, b, c \in DOMAIN result :
          /\ IsOpToken(result[a])
          /\ IsStringToken(result[b]) /\ result[b].len >= 2
          /\ IsGenericToken(result[c]) /\ ~IsOpToken(result[c])

(***************************************************************************)
(* Claims about the errors of SketchFormat::parse.                         *)
(***************************************************************************)
(***************************************************************************)
(* C14.  Every parse-stage error is reported as a value: parse returns a   *)
(* Sketch or the failure signal and never reaches an assertion violation;  *)
(* a Marker member not wrapped in `(` ... `)` (`Marker:(foo(bar`), a Data  *)
(* member with a non-base-36 character (`Data:[00000-]`) and a member      *)
(* whose digit count is not a multiple of the window (`Data:[00000]`) give *)
(* the failure signal.  The code checks these with assert (parser.hh:31,   *)
(* 330, 336) and has no return for them.                                   *)
(***************************************************************************)
C14_ErrorsAreValues ==
    Done =>
        /\ sketch.status \in {"sketch", "fail"}
        /\ str \in {TextMarkerUnbalanced, TextDataBadChar, TextDataShort}
              => sketch = Failure

(***************************************************************************)
(* C17.  Brush members are consumed in pairs without reading outside the   *)
(* member list: every index parse uses to read a member of a Brush element *)
(* is smaller than the member count, an odd count included.  The code      *)
(* never reads the multiplier of the grammar table: with an odd count it   *)
(* reads members[count] (`Brush:[0A]` reads members[1] of 1 member).       *)
(***************************************************************************)
C17_BrushReadsInsideMembers == oobRead = FALSE

\* The grammar of a statement, read off the element table of the format.
BracketedNames == {NameData, NamePencil, NameBrush, NameAffine}

\* The index of the first `]` at or after k; Len(t) when there is none.
RECURSIVE FirstClose(_, _)
FirstClose(t, k) ==
    IF k >= Len(t) THEN Len(t)
    ELSE IF At(t, k) = Tok("]") THEN k
    ELSE FirstClose(t, k + 1)

\* The index behind the well-formed element that starts at k; -1 when the
\* tokens at k are not a well-formed element.
ElementEnd(t, k) ==
    IF k + 2 >= Len(t) \/ At(t, k + 1) # Tok(":") THEN 0 - 1
    ELSE IF At(t, k) = NameMarker THEN k + 3
    ELSE IF At(t, k) \notin BracketedNames \/ At(t, k + 2) # Tok("[") THEN 0 - 1
    ELSE LET c == FirstClose(t, k + 3)
         IN IF c = Len(t) THEN 0 - 1
            ELSE IF At(t, k) = NameAffine /\ c - (k + 3) # 9 THEN 0 - 1
            ELSE c + 1

\* The index of the `,` or `;` that ends the run of n + (some more)
\* well-formed elements from k on, or of the end of the tokens; -1 when the
\* run is empty or holds something that is not a well-formed element.
RECURSIVE StatementEnd(_, _, _)
StatementEnd(t, k, n) ==
    IF k >= Len(t) \/ At(t, k) \in {Tok(","), Tok(";")}
    THEN IF n > 0 THEN k ELSE 0 - 1
    ELSE IF ElementEnd(t, k) < 0 THEN 0 - 1
    ELSE StatementEnd(t, ElementEnd(t, k), n + 1)

\* Every statement from index k on, up to the first `;` that ends a
\* statement or to the end of the tokens, is a non-empty run of well-formed
\* elements.
RECURSIVE WellFormedFrom(_, _)
WellFormedFrom(t, k) ==
    LET e == StatementEnd(t, k, 0)
    IN IF e < 0 THEN FALSE
       ELSE IF e < Len(t) /\ At(t, e) = Tok(";") THEN TRUE
       ELSE IF e + 1 >= Len(t) THEN TRUE
       ELSE WellFormedFrom(t, e + 1)

WellFormed(t) == t = <<>> \/ WellFormedFrom(t, 0)

LeadingSemicolon(t) == t # <<>> /\ At(t, 0) = Tok(";")

NotQuote(c) == c # "'"

\* The digits of a member: its characters without the `'`.
Digits(m) == SelectSeq(m, NotQuote)

\* m is 6*n base-36 digits with `'` characters anywhere between them.
IsDigitMember(m) ==
    /\ \A k \in DOMAIN Digits(m) : isBase36(Digits(m)[k])
    /\ Len(Digits(m)) % 6 = 0

\* The points of the windows of 6 digits of w: 3 digits x, 3 digits y.
RECURSIVE SixPoints(_)
SixPoints(w) ==
    IF Len(w) < 6 THEN <<>>
    ELSE <<[x |-> Signed36(Unsigned36(SubSeq(w, 1, 3)), 3),
            y |-> Signed36(Unsigned36(SubSeq(w, 4, 6)), 3),
            pressure |-> [num |-> 1, den |-> 1]]>>
            \o SixPoints(SubSeq(w, 7, Len(w)))

MemberStroke(m) ==
    [kind |-> "Stroke", diameter |-> 3, points |-> SixPoints(Digits(m))]

\* The tokens begin with a Data or Pencil element whose members all are
\* digit members.
StrokeElementFirst(t) ==
    /\ Len(t) >= 4
    /\ At(t, 0) \in {NameData, NamePencil}
    /\ At(t, 1) = Tok(":")
    /\ At(t, 2) = Tok("[")
    /\ FirstClose(t, 3) < Len(t)
    /\ \A k \in 3..(FirstClose(t, 3) - 1) : IsDigitMember(At(t, k))

\* The members of that element.
FirstMembers(t) == SubSeq(t, 4, FirstClose(t, 3))

\* The last n atoms of the Sketch: those of its first statement.
LastAtoms(n) == SubSeq(sketch.atoms, Len(sketch.atoms) - n + 1, Len(sketch.atoms))

(***************************************************************************)
(* C16.  For a statement whose first element is Data or Pencil with        *)
(* members m1..mk, each (without its `'` characters) 6*n_j base-36 digits, *)
(* parse gives exactly k Strokes in member order, each of diameter 3;      *)
(* Stroke j has the n_j Points of the windows of m_j in order, x the       *)
(* signed value of the first 3 digits of the window, y that of the last 3, *)
(* pressure 1; members with the same digits give the same Stroke wherever  *)
(* their `'` characters are.  When the element is all of the tokens parse  *)
(* returns a Sketch with these atoms and no others.                        *)
(***************************************************************************)
C16_StrokesOfDataAndPencil ==
    (Done /\ StrokeElementFirst(tkn)) =>
        LET ms == FirstMembers(tkn)
        IN /\ Len(tkn) = FirstClose(tkn, 3) + 1 =>
                 /\ sketch.status = "sketch"
                 /\ Len(sketch.atoms) = Len(ms)
           /\ sketch.status = "sketch" =>
                 /\ Len(sketch.atoms) >= Len(ms)
                 /\ LastAtoms(Len(ms)) = [j \in DOMAIN ms |-> MemberStroke(ms[j])]
                 /\ \A a, b \in DOMAIN ms :
                       Digits(ms[a]) = Digits(ms[b])
                          => LastAtoms(Len(ms))[a] = LastAtoms(Len(ms))[b]

\* parse returned two Strokes of one Point each for two members that differ
\* in their `'` only, or a Stroke of two Points with negative coordinates.
C16_Witness ==
    /\ Done
    /\ StrokeElementFirst(tkn)
    /\ sketch.status = "sketch"
    /\ Len(sketch.atoms) = 2
    /\ \/ /\ At(tkn, 3) # At(tkn, 4)
          /\ Digits(At(tkn, 3)) = OneWindow
          /\ Digits(At(tkn, 4)) = OneWindow
       \/ /\ Len(sketch.atoms[1].points) = 2
          /\ sketch.atoms[1].points[2].x < 0

\* The element chunks: one well-formed element each.
ElementChunks == {ChunkMarker, ChunkData, ChunkBrush, ChunkAffine}

IsPrefix(c, t) == Len(c) <= Len(t) /\ SubSeq(t, 1, Len(c)) = c

\* The element chunks t is the concatenation of; <<<<>>>> when it is none.
RECURSIVE ChunkSplit(_)
ChunkSplit(t) ==
    IF t = <<>> THEN <<>>
    ELSE IF \E c \in ElementChunks : IsPrefix(c, t)
    THEN LET c == CHOOSE c \in ElementChunks : IsPrefix(c, t)
             rest == ChunkSplit(SubSeq(t, Len(c) + 1, Len(t)))
         IN IF rest = <<<<>>>> THEN rest ELSE <<c>> \o rest
    ELSE <<<<>>>>

\* One statement of element chunks, and nothing else.
IsStatementOfChunks(t) == t # <<>> /\ ChunkSplit(t) # <<<<>>>>

\* The atoms of an element chunk in first position.
ChunkAtoms(c) ==
    IF c = ChunkMarker THEN <<[kind |-> "Marker", message |-> <<"a">>]>>
    ELSE IF c = ChunkData
    THEN <<[kind |-> "Stroke", diameter |-> 3,
            points |-> <<[x |-> 0, y |-> 1, pressure |-> [num |-> 1, den |-> 1]]>>]>>
    ELSE IF c = ChunkBrush THEN <<BrushStroke>>
    ELSE <<>>

\* The modifier of the Affine chunk: the matrix 1..9.
AffineModifier ==
    [kind |-> "Affine", m |-> [j \in 1..9 |-> [num |-> j, den |-> 1]]]

IsAffineChunk(c) == c = ChunkAffine

\* One AffineModifier for every Affine chunk of cs.
ChunkModifiers(cs) ==
    [j \in 1..Len(SelectSeq(cs, IsAffineChunk)) |-> AffineModifier]

(***************************************************************************)
(* C20.  Only the first element of a statement gives atoms: for a          *)
(* statement of well-formed elements e1 e2 ... en parse returns a Sketch   *)
(* (a later Data, Brush or Marker causes no failure) whose atoms are those *)
(* of e1 alone (none when e1 is Affine); the statement's Element, when its *)
(* type is a grouping one, has these atoms and one modifier for every      *)
(* Affine among e2 ... en, in order, and none for an Affine e1.            *)
(***************************************************************************)
C20_OnlyFirstElementGivesAtoms ==
    (Done /\ IsStatementOfChunks(tkn)) =>
        LET cs == ChunkSplit(tkn)
        IN /\ sketch.status = "sketch"
           /\ sketch.atoms = ChunkAtoms(cs[1])
           /\ sketch.elements =
                 IF cs[1][1] \in elementTypeFromString
                 THEN <<[type |-> cs[1][1], atoms |-> ChunkAtoms(cs[1]),
                         modifiers |-> ChunkModifiers(Tail(cs))]>>
                 ELSE <<>>

\* parse returned on a statement with a Marker, a Brush and an Affine behind
\* its first element, or on one with an Affine first and an atom-giving
\* element behind it; the statement's Element is in the Sketch.
C20_Witness ==
    /\ Done
    /\ IsStatementOfChunks(tkn)
    /\ sketch.elements # <<>>
    /\ \/ /\ ChunkSplit(tkn)[1] = ChunkData
          /\ Range(Tail(ChunkSplit(tkn))) = {ChunkMarker, ChunkBrush, ChunkAffine}
       \/ /\ ChunkSplit(tkn)[1] = ChunkAffine
          /\ Range(Tail(ChunkSplit(tkn))) = {ChunkData, ChunkAffine}

====
